---- MODULE Spec2Model ----
(***************************************************************************)
(* UnifiedConsensusMaker.py: tag canonicalisation, family grouping,        *)
(* single-strand consensus calling and duplex merging.                     *)
(*                                                                         *)
(* Python strings are sequences of one-character strings; a quality string *)
(* is a sequence of character codes; a float option is a pair <<num, den>> *)
(* with den > 0, and a / b >= c is compared as a * den >= num * b.         *)
(***************************************************************************)
EXTENDS Integers, Sequences, FiniteSets, TLC

VARIABLES
    o,                  \* parsed options (argparse namespace)
    pc,                 \* position of main()
    err,                \* the exception that ended the run, if any
    \* --- tag parsing stage (lines 258-322)
    paired_end_count,
    temp_read1_entry,
    temp_bam,           \* records written to <prefix>.temp.bam
    raw_in,             \* history: the lines fetched from the input bam
    \* --- consensus stage (lines 335-545)
    endIter,            \* iteratorWrapper.endIter
    first_line,
    seq_dict,
    qual_dict,
    tag_count_dict,
    read1_dcs_len,
    read2_dcs_len,
    dcs_read_1,
    dcs_read_2,
    sscs_fq,            \* <<read1_sscs_fq_file, read2_sscs_fq_file>>
    dcs_fq,             \* <<read1_dcs_fq_file, read2_dcs_fq_file>>
    consumed,           \* history: the lines read from <prefix>.temp.sort.bam
    log,                \* history: one entry per family handed over at line 371
    \* --- a single call of consensus_caller
    call_in,
    call_out

vars == <<o, pc, err, paired_end_count, temp_read1_entry, temp_bam, raw_in,
          endIter, first_line, seq_dict, qual_dict, tag_count_dict,
          read1_dcs_len, read2_dcs_len, dcs_read_1, dcs_read_2,
          sscs_fq, dcs_fq, consumed, log, call_in, call_out>>

parse_vars == <<paired_end_count, temp_read1_entry, temp_bam, raw_in>>

cons_vars == <<endIter, first_line, seq_dict, qual_dict, tag_count_dict,
               read1_dcs_len, read2_dcs_len, dcs_read_1, dcs_read_2,
               sscs_fq, dcs_fq, consumed, log>>

call_vars == <<call_in, call_out>>

----------------------------------------------------------------------------
(* Bounds of the model *)

MaxReads == 3       \* reads in a bucket given to a single consensus_caller call
MaxLen == 2         \* length of those reads
MaxLines == 4       \* lines fetched from the unaligned input bam
MaxStream == 4      \* records in the name-sorted temporary bam

----------------------------------------------------------------------------
(* Python built-ins *)

Min(a, b) == IF a < b THEN a ELSE b

Max(a, b) == IF a < b THEN b ELSE a

\* ord(c) for the characters that occur in reads and read names
Ord(c) ==
    CASE c = "#" -> 35 [] c = "1" -> 49 [] c = "2" -> 50 [] c = ":" -> 58
      [] c = "A" -> 65 [] c = "C" -> 67 [] c = "F" -> 70 [] c = "G" -> 71
      [] c = "N" -> 78 [] c = "R" -> 82 [] c = "T" -> 84 [] c = "V" -> 86
      [] c = "a" -> 97 [] c = "b" -> 98 [] c = "e" -> 101 [] c = "i" -> 105
      [] c = "l" -> 108 [] c = "n" -> 110 [] c = "u" -> 117

\* s < t on str: first differing character decides, a proper prefix is smaller
RECURSIVE StrLess(_, _)
StrLess(s, t) ==
    IF t = <<>> THEN FALSE
    ELSE IF s = <<>> THEN TRUE
    ELSE IF Head(s) # Head(t) THEN Ord(Head(s)) < Ord(Head(t))
    ELSE StrLess(Tail(s), Tail(t))

\* s[a:b]; negative indices count from the end, out-of-range ones are clamped
PySlice(s, a, b) ==
    LET n == Len(s)
        lo == IF a < 0 THEN Max(n + a, 0) ELSE Min(a, n)
        hi == IF b < 0 THEN Max(n + b, 0) ELSE Min(b, n)
    IN  SubSeq(s, lo + 1, hi)

\* s[a:]
PyFrom(s, a) == PySlice(s, a, Len(s))

\* s.replace(old, new) for one-character old and new
PyReplace(s, old, new) == [i \in 1..Len(s) |-> IF s[i] = old THEN new ELSE s[i]]

\* s.count(x) on a str or a list: the number of elements equal to x
RECURSIVE PyCount(_, _)
PyCount(s, x) ==
    IF s = <<>> THEN 0
    ELSE (IF Head(s) = x THEN 1 ELSE 0) + PyCount(Tail(s), x)

\* c * n on a one-character str c
PyRepeat(c, n) == [i \in 1..Max(n, 0) |-> c]

\* sub in s, for str
PyContains(s, sub) ==
    \E k \in 0..(Len(s) - Len(sub)) : SubSeq(s, k + 1, k + Len(sub)) = sub

\* s.split('#'): the list of the pieces between the '#' characters
RECURSIVE PySplitHash(_, _, _)
PySplitHash(s, cur, acc) ==
    IF s = <<>> THEN Append(acc, cur)
    ELSE IF Head(s) = "#" THEN PySplitHash(Tail(s), <<>>, Append(acc, cur))
    ELSE PySplitHash(Tail(s), Append(cur, Head(s)), acc)

Split(s) == PySplitHash(s, <<>>, <<>>)

\* str(n) for n >= 0: the decimal digits
Digit(d) ==
    CASE d = 0 -> "0" [] d = 1 -> "1" [] d = 2 -> "2" [] d = 3 -> "3"
      [] d = 4 -> "4" [] d = 5 -> "5" [] d = 6 -> "6" [] d = 7 -> "7"
      [] d = 8 -> "8" [] d = 9 -> "9"

RECURSIVE PyStr(_)
PyStr(n) == IF n < 10 THEN <<Digit(n)>> ELSE Append(PyStr(n \div 10), Digit(n % 10))

\* a / float(b) >= c and a / float(b) > c, for b > 0 and c = <<num, den>>
RatioGeq(a, b, c) == a * c[2] >= c[1] * b

RatioGt(a, b, c) == a * c[2] > c[1] * b

----------------------------------------------------------------------------
(* consensus_caller, lines 66-117 *)

\* lines 88-100: one read's base at one position added to nuc_identity_list
\* (T, C, G, A, N, Total)
CountBase(nl, c) ==
    LET k == CASE c = "T" -> 1 [] c = "C" -> 2 [] c = "G" -> 3 [] c = "A" -> 4
               [] OTHER -> 5
    IN  [nl EXCEPT ![k] = @ + 1, ![6] = @ + 1]

\* lines 84-102: the inner loop over the reads; the IndexError of a read that
\* is too short is caught and ends the loop
RECURSIVE TallyFrom(_, _, _, _)
TallyFrom(input_reads, i, j, nl) ==
    IF j > Len(input_reads) THEN nl
    ELSE IF i > Len(input_reads[j]) THEN nl
    ELSE TallyFrom(input_reads, i, j + 1, CountBase(nl, input_reads[j][i]))

nuc_key_dict == <<"T", "C", "G", "A", "N">>

\* lines 103-113: the first of T, C, G, A, N whose share reaches the cutoff;
\* a division by zero is caught and gives 'N'
RECURSIVE CallFrom(_, _, _)
CallFrom(nl, cutoff, j) ==
    IF nl[6] = 0 THEN "N"
    ELSE IF RatioGeq(nl[j], nl[6], cutoff) THEN nuc_key_dict[j]
    ELSE IF j = 5 THEN "N"
    ELSE CallFrom(nl, cutoff, j + 1)

consensus_caller(input_reads, cutoff, tag, length_check) ==
    IF input_reads = <<>>
    THEN [exc |-> "IndexError", tag |-> tag, seq |-> <<>>]
    ELSE IF length_check
            /\ \E k \in 2..Len(input_reads) : Len(input_reads[k]) # Len(input_reads[1])
    THEN [exc |-> "Exception", tag |-> tag, seq |-> <<>>]
    ELSE [exc |-> "none", tag |-> tag,
          seq |-> [i \in 1..Len(input_reads[1]) |->
                     CallFrom(TallyFrom(input_reads, i, 1, <<0, 0, 0, 0, 0, 0>>),
                              cutoff, 1)]]

\* qual_calc, lines 120-121: column sums over zip(*qual_list)
RECURSIVE SumAt(_, _)
SumAt(qual_list, i) ==
    IF qual_list = <<>> THEN 0
    ELSE Head(qual_list)[i] + SumAt(Tail(qual_list), i)

RECURSIVE MinLen(_)
MinLen(lists) ==
    IF Len(lists) = 1 THEN Len(lists[1])
    ELSE Min(Len(Head(lists)), MinLen(Tail(lists)))

qual_calc(qual_list) ==
    IF qual_list = <<>> THEN <<>>
    ELSE [i \in 1..MinLen(qual_list) |-> SumAt(qual_list, i)]

----------------------------------------------------------------------------
(* Values of the variables a stage has not touched *)

\* options of a run that writes both the SSCS and the DCS files
BaseOptions ==
    [tag_len |-> 1, spcr_len |-> 0, loc_len |-> 0,
     minmem |-> 1, maxmem |-> 2, cutoff |-> <<7, 10>>, Ncutoff |-> <<1, 1>>,
     rep_filt |-> 3, write_sscs |-> TRUE, without_dcs |-> FALSE]

NoError == [kind |-> "none", msg |-> "", tag |-> <<>>]

NoSegment == [query_name |-> <<>>, query_sequence |-> <<>>, query_qualities |-> <<>>]

Subtypes == << <<"a", "b", ":", "1">>, <<"a", "b", ":", "2">>,
               <<"b", "a", ":", "1">>, <<"b", "a", ":", "2">> >>

SubtypeSet == {Subtypes[k] : k \in 1..4}

\* lines 335-336 and 534-535
EmptyDict == [k \in SubtypeSet |-> <<>>]

\* an unbound or empty dcs_read_N: the kind tells a list from a str
NoDcsRead == [kind |-> "str", val |-> <<>>, qkind |-> "str", qual |-> <<>>]

ParseIdle ==
    /\ paired_end_count = 1
    /\ temp_read1_entry = NoSegment
    /\ temp_bam = <<>>
    /\ raw_in = <<>>

ConsIdle ==
    /\ endIter = FALSE
    /\ first_line = NoSegment
    /\ seq_dict = EmptyDict
    /\ qual_dict = EmptyDict
    /\ tag_count_dict = <<>>
    /\ read1_dcs_len = 0
    /\ read2_dcs_len = 0
    /\ dcs_read_1 = NoDcsRead
    /\ dcs_read_2 = NoDcsRead
    /\ sscs_fq = << <<>>, <<>> >>
    /\ dcs_fq = << <<>>, <<>> >>
    /\ consumed = <<>>
    /\ log = <<>>

CallIdle ==
    /\ call_in = [reads |-> <<>>, cutoff |-> <<1, 1>>, length_check |-> TRUE]
    /\ call_out = [exc |-> "pending", tag |-> <<>>, seq |-> <<>>]

----------------------------------------------------------------------------
(* A single call of consensus_caller on a bucket of equal-length reads *)

\* T, C, G, A, N and one symbol that is none of them
Symbols == {"T", "C", "G", "A", "N", "R"}

CallCutoffs == {<<3, 10>>, <<7, 10>>, <<1, 1>>}

CallBuckets ==
    UNION {[1..n -> [1..l -> Symbols]] : n \in 1..MaxReads, l \in 1..MaxLen}

CallTag == <<"C", "A">>

InitCaller ==
    /\ o = BaseOptions
    /\ pc = "call"
    /\ err = NoError
    /\ ParseIdle
    /\ ConsIdle
    /\ call_in \in [reads : CallBuckets, cutoff : CallCutoffs, length_check : {TRUE}]
    /\ call_out = [exc |-> "pending", tag |-> <<>>, seq |-> <<>>]

Call ==
    /\ pc = "call"
    /\ call_out' = consensus_caller(call_in.reads, call_in.cutoff, CallTag,
                                    call_in.length_check)
    /\ pc' = "called"
    /\ UNCHANGED <<o, err, call_in, parse_vars, cons_vars>>

NextCaller == Call

SpecCaller == InitCaller /\ [][NextCaller]_vars

\* the voting category of a symbol: T, C, G, A, or "other" (written N)
Category(c) == IF c \in {"T", "C", "G", "A"} THEN c ELSE "N"

Priority == <<"T", "C", "G", "A", "N">>

CategoryCount(reads, i, k) ==
    Cardinality({j \in 1..Len(reads) : Category(reads[j][i]) = Priority[k]})

\* the category with the highest tally, ties going to the earlier priority
TopCategory(reads, i) ==
    CHOOSE k \in 1..5 :
        \A m \in 1..5 :
            /\ CategoryCount(reads, i, k) >= CategoryCount(reads, i, m)
            /\ CategoryCount(reads, i, m) = CategoryCount(reads, i, k) => k <= m

PluralityBase(reads, i, cutoff) ==
    LET k == TopCategory(reads, i)
    IN  IF RatioGeq(CategoryCount(reads, i, k), Len(reads), cutoff)
        THEN Priority[k] ELSE "N"

\* C5: for a bucket of N >= 1 reads of equal length L and a cutoff in (0,1],
\* the consensus has length L and each position holds the category with the
\* highest tally (ties by the priority T, C, G, A, other) when that tally over
\* N reaches the cutoff, and 'N' otherwise.
C5_PluralityVote ==
    pc = "called" =>
        /\ call_out.exc = "none"
        /\ Len(call_out.seq) = Len(call_in.reads[1])
        /\ \A i \in 1..Len(call_out.seq) :
               call_out.seq[i] = PluralityBase(call_in.reads, i, call_in.cutoff)

----------------------------------------------------------------------------
(* Tag parsing, lines 258-322 *)

\* the reads the unaligned input bam may hold
RawSeqs == [1..3 -> {"A", "C"}] \cup {<<"C">>}

RawLines ==
    {[query_name |-> <<"r">>, query_sequence |-> s,
      query_qualities |-> [i \in 1..Len(s) |-> 30]] : s \in RawSeqs}

ParseOptions ==
    {[BaseOptions EXCEPT !.tag_len = tl, !.spcr_len = sl[1], !.loc_len = sl[2]] :
        tl \in {1, 2}, sl \in {<<0, 0>>, <<0, 1>>, <<1, 1>>}}

\* lines 276-283: the tag and the location bases of one mate
TagOf(query_sequence, opts) ==
    LET tl == opts.tag_len
        sl == opts.spcr_len
        ll == opts.loc_len
    IN  PySlice(query_sequence, 0, tl) \o PySlice(query_sequence, tl + sl, tl + sl + ll)

\* a mutant: the two tags are joined in the order of the mates
Canonicalize_swapped(read1, line, opts) ==
    LET tag1 == TagOf(read1.query_sequence, opts)
        tag2 == TagOf(line.query_sequence, opts)
        skip == opts.tag_len + opts.spcr_len
        name == IF StrLess(tag2, tag1) THEN tag1 \o tag2 \o <<"#", "a", "b">>
                ELSE tag1 \o tag2 \o <<"#", "b", "a">>
        name1 == name \o <<":", "1">>
    IN  IF tag1 = tag2 THEN <<>>
        ELSE << [query_name |-> name1,
                 query_sequence |-> PyFrom(read1.query_sequence, skip),
                 query_qualities |-> PyFrom(read1.query_qualities, skip),
                 xtag |-> read1.query_name],
                [query_name |-> PyReplace(name1, "1", "2"),
                 query_sequence |-> PyFrom(line.query_sequence, skip),
                 query_qualities |-> PyFrom(line.query_qualities, skip),
                 xtag |-> line.query_name] >>

\* lines 274-317: the records written for the pair (read1, line)
Canonicalize(read1, line, opts) ==
    LET tag1 == TagOf(read1.query_sequence, opts)
        tag2 == TagOf(line.query_sequence, opts)
        skip == opts.tag_len + opts.spcr_len
        name == IF StrLess(tag2, tag1) THEN tag1 \o tag2 \o <<"#", "a", "b">>
                ELSE tag2 \o tag1 \o <<"#", "b", "a">>
        name1 == name \o <<":", "1">>
    IN  IF ~StrLess(tag2, tag1) /\ ~StrLess(tag1, tag2) THEN <<>>
        ELSE << [query_name |-> name1,
                 query_sequence |-> PyFrom(read1.query_sequence, skip),
                 query_qualities |-> PyFrom(read1.query_qualities, skip),
                 xtag |-> read1.query_name],
                [query_name |-> PyReplace(name1, "1", "2"),
                 query_sequence |-> PyFrom(line.query_sequence, skip),
                 query_qualities |-> PyFrom(line.query_qualities, skip),
                 xtag |-> line.query_name] >>

InitParse ==
    /\ o \in ParseOptions
    /\ pc = "parse"
    /\ err = NoError
    /\ ParseIdle
    /\ ConsIdle
    /\ CallIdle

\* lines 263-319: one iteration of the loop over the input bam
ParseLine ==
    /\ pc = "parse"
    /\ Len(raw_in) < MaxLines
    /\ \E line \in RawLines :
        /\ raw_in' = Append(raw_in, line)
        /\ IF paired_end_count % 2 = 1
           THEN /\ temp_read1_entry' =
                      [query_name |-> line.query_name,
                       query_sequence |-> line.query_sequence,
                       query_qualities |-> line.query_qualities]
                /\ temp_bam' = temp_bam
           ELSE /\ temp_read1_entry' = temp_read1_entry
                /\ temp_bam' = temp_bam \o Canonicalize(temp_read1_entry, line, o)
        /\ paired_end_count' = paired_end_count + 1
    /\ UNCHANGED <<o, pc, err, cons_vars, call_vars>>

\* lines 321-322: the input is exhausted and both files are closed
ParseEnd ==
    /\ pc = "parse"
    /\ pc' = "parsed"
    /\ UNCHANGED <<o, err, parse_vars, cons_vars, call_vars>>

NextParse == ParseLine \/ ParseEnd

SpecParse == InitParse /\ [][NextParse]_vars

\* what the consensus stage reads from a record: tag, subtype, read body
RecordView(rec) ==
    [tag |-> Split(rec.query_name)[1], subtype |-> Split(rec.query_name)[2],
     seq |-> rec.query_sequence]

\* the records C1 asks for, for the pairs of lines[k], lines[k+1], ...
RECURSIVE CanonicalRecords(_, _, _)
CanonicalRecords(lines, k, opts) ==
    IF k + 1 > Len(lines) THEN <<>>
    ELSE LET m1 == lines[k].query_sequence
             m2 == lines[k + 1].query_sequence
             t1 == TagOf(m1, opts)
             t2 == TagOf(m2, opts)
             skip == opts.tag_len + opts.spcr_len
             pair(tag, orient) ==
                 << [tag |-> tag, subtype |-> orient \o <<":", "1">>,
                     seq |-> PyFrom(m1, skip)],
                    [tag |-> tag, subtype |-> orient \o <<":", "2">>,
                     seq |-> PyFrom(m2, skip)] >>
             out == IF StrLess(t2, t1) THEN pair(t1 \o t2, <<"a", "b">>)
                    ELSE IF StrLess(t1, t2) THEN pair(t2 \o t1, <<"b", "a">>)
                    ELSE <<>>
         IN  out \o CanonicalRecords(lines, k + 2, opts)

----------------------------------------------------------------------------
(* Consensus making, lines 335-545 *)

\* line 347-348: the value the iteratorWrapper yields once the file is exhausted
FinalValue ==
    [query_name |-> <<"F", "i", "n", "a", "l", "V", "a", "l", "u", "e",
                      "#", "a", "b", ":", "1">>,
     query_sequence |-> <<>>, query_qualities |-> <<>>]

\* defaultdict(lambda: 0): tag_count_dict[n] += 1
CountUp(d, n) ==
    IF n \in DOMAIN d THEN [d EXCEPT ![n] = @ + 1] ELSE d @@ (n :> 1)

\* a mutant: only the ab buckets are compared
MateCountsDiffer_abOnly(sd) ==
    Len(sd[Subtypes[1]]) # Len(sd[Subtypes[2]])

\* lines 373-375: the condition of the read-count exception
MateCountsDiffer(sd) ==
    \/ Len(sd[Subtypes[1]]) # Len(sd[Subtypes[2]])
    \/ Len(sd[Subtypes[3]]) # Len(sd[Subtypes[4]])

\* a mutant: a bucket above maxmem is voted on in full
GateBucket_noCut(bucket, quals, opts, tag) ==
    LET n == Len(bucket)
        Called(reads, sscs) ==
            [seq |-> <<sscs.seq, PyStr(n)>>, qual |-> qual_calc(quals),
             exc |-> sscs.exc, call |-> [made |-> TRUE, reads |-> reads]]
    IN  IF n < opts.minmem
        THEN [seq |-> <<>>, qual |-> <<>>, exc |-> "none",
              call |-> [made |-> FALSE, reads |-> <<>>]]
        ELSE Called(bucket, consensus_caller(bucket, opts.cutoff, tag, TRUE))

\* lines 385-411: one subtype's bucket becomes [] or [consensus, str(count)],
\* its qualities [] or the column sums; call tells what consensus_caller got
GateBucket(bucket, quals, opts, tag) ==
    LET n == Len(bucket)
        \* [consensus_caller(reads, ...)[1], str(len(bucket))] and qual_calc
        Called(reads, sscs) ==
            [seq |-> <<sscs.seq, PyStr(n)>>, qual |-> qual_calc(quals),
             exc |-> sscs.exc, call |-> [made |-> TRUE, reads |-> reads]]
        Vote(reads) == Called(reads, consensus_caller(reads, opts.cutoff, tag, TRUE))
    IN  IF n < opts.minmem
        THEN [seq |-> <<>>, qual |-> <<>>, exc |-> "none",
              call |-> [made |-> FALSE, reads |-> <<>>]]
        ELSE IF opts.minmem <= n /\ n <= opts.maxmem
        THEN Vote(bucket)
        ELSE IF n > opts.maxmem
        THEN Vote(PySlice(bucket, 0, opts.maxmem))
        ELSE [seq |-> bucket, qual |-> quals, exc |-> "none",
              call |-> [made |-> FALSE, reads |-> <<>>]]

NoCalls == [k \in SubtypeSet |-> [made |-> FALSE, reads |-> <<>>]]

\* lines 380-411: the loop over the four subtypes, ended by an exception of
\* consensus_caller
RECURSIVE GateFrom(_, _, _, _)
GateFrom(k, st, opts, tag) ==
    IF k > 4 \/ st.exc # "none" THEN st
    ELSE LET sub == Subtypes[k]
             n == Len(st.seq_dict[sub])
             counted == IF n > 0 THEN CountUp(st.tag_count_dict, n)
                        ELSE st.tag_count_dict
             Stored(g) ==
                 IF g.exc # "none"
                 THEN [st EXCEPT !.tag_count_dict = counted, !.exc = g.exc,
                                 !.calls[sub] = g.call]
                 ELSE [seq_dict |-> [st.seq_dict EXCEPT ![sub] = g.seq],
                       qual_dict |-> [st.qual_dict EXCEPT ![sub] = g.qual],
                       tag_count_dict |-> counted,
                       calls |-> [st.calls EXCEPT ![sub] = g.call],
                       exc |-> "none"]
         IN  GateFrom(k + 1,
                      Stored(GateBucket(st.seq_dict[sub], st.qual_dict[sub], opts, tag)),
                      opts, tag)

\* lines 416-421: the quality string of a summed quality list, as character codes
QualStr(quals) == [i \in 1..Len(quals) |-> (IF quals[i] < 41 THEN quals[i] ELSE 41) + 33]

\* lines 413-463: the records appended to the two SSCS files
SscsRecord(sd, qd, tag, orient, mate) ==
    LET sub == orient \o <<":", mate>>
    IN  [tag |-> tag, orient |-> orient, mate |-> mate, seq |-> sd[sub][1],
         depth |-> sd[sub][2], qual |-> QualStr(qd[sub])]

WriteSscs(files, sd, qd, opts, tag) ==
    LET ab == opts.write_sscs /\ Len(sd[Subtypes[1]]) # 0 /\ Len(sd[Subtypes[2]]) # 0
        ba == opts.write_sscs /\ Len(sd[Subtypes[3]]) # 0 /\ Len(sd[Subtypes[4]]) # 0
        out(mate) ==
            (IF ab THEN <<SscsRecord(sd, qd, tag, <<"a", "b">>, mate)>> ELSE <<>>)
            \o (IF ba THEN <<SscsRecord(sd, qd, tag, <<"b", "a">>, mate)>> ELSE <<>>)
    IN  <<files[1] \o out("1"), files[2] \o out("2")>>

\* a mutant: the first strand is merged with itself
DcsList_oneStrand(sd, qd, s1, s2, tag) ==
    LET Capped(sums) == [i \in 1..Len(sums) |-> IF sums[i] < 41 THEN sums[i] ELSE 41]
    IN  [kind |-> "list",
         val |-> <<consensus_caller(<<sd[s1][1], sd[s1][1]>>, <<1, 1>>, tag, FALSE).seq,
                   sd[s1][2], sd[s2][2]>>,
         qkind |-> "ints",
         qual |-> Capped(qual_calc(<<qd[s1], qd[s2]>>))]

\* lines 468-480 and 490-502: the merge of the consensuses of subtypes s1 and
\* s2 with their two depths, and the capped sums of their qualities
DcsList(sd, qd, s1, s2, tag) ==
    LET Capped(sums) == [i \in 1..Len(sums) |-> IF sums[i] < 41 THEN sums[i] ELSE 41]
    IN  [kind |-> "list",
         val |-> <<consensus_caller(<<sd[s1][1], sd[s2][1]>>, <<1, 1>>, tag, FALSE).seq,
                   sd[s1][2], sd[s2][2]>>,
         qkind |-> "ints",
         qual |-> Capped(qual_calc(<<qd[s1], qd[s2]>>))]

\* lines 485-487 and 505-507: read.count('N') over divlen against Ncutoff; the
\* replacement is a str of seqlen 'N' with a str of quallen '!'
NFilter(read, divlen, seqlen, quallen, opts) ==
    IF RatioGt(PyCount(read.val, <<"N">>), divlen, opts.Ncutoff)
    THEN [kind |-> "str", val |-> PyRepeat("N", seqlen),
          qkind |-> "str", qual |-> PyRepeat("!", quallen)]
    ELSE read

\* lines 509-516: the condition under which the two DCS records are written
TagAccepted(len1, len2, tag, opts) ==
    /\ len1 # 0
    /\ len2 # 0
    /\ PyCount(tag, "N") = 0
    /\ ~PyContains(tag, PyRepeat("A", opts.rep_filt))
    /\ ~PyContains(tag, PyRepeat("C", opts.rep_filt))
    /\ ~PyContains(tag, PyRepeat("G", opts.rep_filt))
    /\ ~PyContains(tag, PyRepeat("T", opts.rep_filt))

\* lines 517-528: one DCS record; the quality string is chr(x + 33) of each x
DcsRecord(read, tag, mate) ==
    [tag |-> tag, mate |-> mate, seq |-> read.val[1],
     depth1 |-> read.val[2], depth2 |-> read.val[3],
     qual |-> [i \in 1..Len(read.qual) |-> read.qual[i] + 33]]

\* lines 465-528 for one family: st holds read1_dcs_len, read2_dcs_len,
\* dcs_read_1 and dcs_read_2 (each with its quality)
Duplex(sd, qd, st, files, opts, tag) ==
    LET form1 == ~opts.without_dcs
                 /\ Len(sd[Subtypes[1]]) # 0 /\ Len(sd[Subtypes[4]]) # 0
        form2 == ~opts.without_dcs
                 /\ Len(sd[Subtypes[3]]) # 0 /\ Len(sd[Subtypes[2]]) # 0
        \* lines 509-528 on the two reads r1 and r2 left by the N filter
        Written(m1, m2, len1, len2, zero, r1, r2, accept) ==
            LET bad == accept /\ (r1.qkind = "str" \/ r2.qkind = "str")
                emit == accept /\ ~bad
            IN  [read1_dcs_len |-> len1,
                 read2_dcs_len |-> len2,
                 dcs_read_1 |-> r1,
                 dcs_read_2 |-> r2,
                 exc |-> IF zero THEN "ZeroDivisionError"
                         ELSE IF bad THEN "TypeError" ELSE "none",
                 files |-> IF emit
                           THEN <<Append(files[1], DcsRecord(r1, tag, "1")),
                                  Append(files[2], DcsRecord(r2, tag, "2"))>>
                           ELSE files,
                 formed |-> <<form1, form2>>,
                 merged |-> <<IF form1 THEN m1 ELSE NoDcsRead,
                              IF form2 THEN m2 ELSE NoDcsRead>>,
                 emitted |-> emit]
        \* lines 481-487 and 503-507 on the two merges m1 and m2
        Filtered(m1, m2, len1, len2, zero) ==
            Written(m1, m2, len1, len2, zero,
                    IF form1 THEN NFilter(m1, len1, len1, len1, opts)
                    ELSE st.dcs_read_1,
                    IF ~form2 THEN st.dcs_read_2
                    ELSE IF zero THEN m2
                    ELSE NFilter(m2, len1, len1, len2, opts),
                    ~opts.without_dcs /\ ~zero /\ TagAccepted(len1, len2, tag, opts))
        Measured(m1, m2, len1) ==
            Filtered(m1, m2, len1,
                     IF form2 THEN Len(m2.val) ELSE st.read2_dcs_len,
                     form2 /\ len1 = 0)
        Merged(m1, m2) ==
            Measured(m1, m2, IF form1 THEN Len(m1.val) ELSE st.read1_dcs_len)
    IN  Merged(IF form1 THEN DcsList(sd, qd, Subtypes[1], Subtypes[4], tag)
               ELSE st.dcs_read_1,
               IF form2 THEN DcsList(sd, qd, Subtypes[3], Subtypes[2], tag)
               ELSE st.dcs_read_2)

\* a mutant: the record that closes a family is not put into the next one
FreshDict_skipFirst(sub, value) == EmptyDict

\* lines 534-545: the emptied dict of the next family with its first record
FreshDict(sub, value) == [EmptyDict EXCEPT ![sub] = <<value>>]

\* the part of a log entry that a family stopped by an exception never gets
NoResults ==
    [calls |-> NoCalls, sscs |-> EmptyDict, ssq |-> EmptyDict,
     formed |-> <<FALSE, FALSE>>, merged |-> <<NoDcsRead, NoDcsRead>>,
     cand |-> <<NoDcsRead, NoDcsRead>>, emitted |-> FALSE]

LogEntry(tag, sd, qd, outcome, res) ==
    [tag |-> tag, raw |-> sd, rawq |-> qd, outcome |-> outcome,
     calls |-> res.calls, sscs |-> res.sscs, ssq |-> res.ssq,
     formed |-> res.formed, merged |-> res.merged, cand |-> res.cand,
     emitted |-> res.emitted]

\* lines 361-545: the body of the loop for the value `line` of the iterator;
\* the result holds the new value of every variable of the stage
LoopBody(line) ==
    LET now == [pc |-> pc, err |-> err, first_line |-> first_line,
                seq_dict |-> seq_dict, qual_dict |-> qual_dict,
                tag_count_dict |-> tag_count_dict,
                read1_dcs_len |-> read1_dcs_len, read2_dcs_len |-> read2_dcs_len,
                dcs_read_1 |-> dcs_read_1, dcs_read_2 |-> dcs_read_2,
                sscs_fq |-> sscs_fq, dcs_fq |-> dcs_fq, log |-> log]
        \* g: the outcome of lines 380-411, sscs: of lines 413-463, d: of
        \* lines 465-528
        Family(tag, sub, same, g, sscs, d) ==
            LET gated == [NoResults EXCEPT !.calls = g.calls, !.sscs = g.seq_dict,
                                           !.ssq = g.qual_dict]
                done == [gated EXCEPT !.formed = d.formed, !.merged = d.merged,
                                      !.cand = <<d.dcs_read_1, d.dcs_read_2>>,
                                      !.emitted = d.emitted]
                after == [now EXCEPT !.seq_dict = g.seq_dict,
                                     !.qual_dict = g.qual_dict,
                                     !.tag_count_dict = g.tag_count_dict,
                                     !.read1_dcs_len = d.read1_dcs_len,
                                     !.read2_dcs_len = d.read2_dcs_len,
                                     !.dcs_read_1 = d.dcs_read_1,
                                     !.dcs_read_2 = d.dcs_read_2,
                                     !.sscs_fq = sscs, !.dcs_fq = d.files]
            IN  IF same
                THEN \* lines 363-369
                     [now EXCEPT !.seq_dict[sub] = Append(@, line.query_sequence),
                                 !.qual_dict[sub] = Append(@, line.query_qualities)]
                ELSE IF MateCountsDiffer(seq_dict)
                THEN \* lines 373-378
                     [now EXCEPT
                         !.pc = "abort",
                         !.err = [kind |-> "Exception", msg |-> "ReadCounts",
                                  tag |-> tag],
                         !.log = Append(@, LogEntry(tag, seq_dict, qual_dict,
                                                    "ReadCounts", NoResults))]
                ELSE IF g.exc # "none"
                THEN \* lines 77-79 raised inside lines 393 or 404
                     [now EXCEPT
                         !.pc = "abort",
                         !.err = [kind |-> g.exc, msg |-> "ReadLengths", tag |-> tag],
                         !.tag_count_dict = g.tag_count_dict,
                         !.seq_dict = g.seq_dict, !.qual_dict = g.qual_dict,
                         !.log = Append(@, LogEntry(tag, seq_dict, qual_dict,
                                                    "ReadLengths", gated))]
                ELSE IF d.exc # "none"
                THEN \* lines 505 or 517-518 raise
                     [after EXCEPT
                         !.pc = "abort",
                         !.err = [kind |-> d.exc, msg |-> "", tag |-> <<>>],
                         !.dcs_fq = dcs_fq,
                         !.log = Append(@, LogEntry(tag, seq_dict, qual_dict,
                                                    d.exc, done))]
                ELSE IF line # FinalValue
                THEN \* lines 530-545
                     [after EXCEPT
                         !.first_line = line,
                         !.seq_dict = FreshDict(sub, line.query_sequence),
                         !.qual_dict = FreshDict(sub, line.query_qualities),
                         !.read1_dcs_len = 0,
                         !.read2_dcs_len = 0,
                         !.dcs_read_1 = [@ EXCEPT !.kind = "str", !.val = <<>>],
                         !.dcs_read_2 = [@ EXCEPT !.kind = "str", !.val = <<>>],
                         !.log = Append(@, LogEntry(tag, seq_dict, qual_dict,
                                                    "ok", done))]
                ELSE [after EXCEPT
                         !.log = Append(@, LogEntry(tag, seq_dict, qual_dict,
                                                    "ok", done))]
        AfterGate(tag, sub, same, g) ==
            Family(tag, sub, same, g,
                   WriteSscs(sscs_fq, g.seq_dict, g.qual_dict, o, tag),
                   Duplex(g.seq_dict, g.qual_dict,
                          [read1_dcs_len |-> read1_dcs_len,
                           read2_dcs_len |-> read2_dcs_len,
                           dcs_read_1 |-> dcs_read_1, dcs_read_2 |-> dcs_read_2],
                          dcs_fq, o, tag))
        Tagged(tag, names) ==
            AfterGate(tag, names[2], names[1] = tag,
                  GateFrom(1, [seq_dict |-> seq_dict, qual_dict |-> qual_dict,
                               tag_count_dict |-> tag_count_dict, calls |-> NoCalls,
                               exc |-> "none"], o, tag))
    IN  Tagged(Split(first_line.query_name)[1], Split(line.query_name))

\* the records the name-sorted file may yield after those already read
NextLines(Recs) ==
    IF Len(consumed) >= MaxStream THEN {}
    ELSE {r \in Recs :
            ~StrLess(r.query_name, consumed[Len(consumed)].query_name)}

\* lines 345-356: the first record of the sorted file opens the first family;
\* next() of an empty file raises StopIteration
FirstLine(Recs) ==
    /\ pc = "start"
    /\ \/ \E line \in Recs :
            LET sub == Split(line.query_name)[2]
            IN  /\ first_line' = line
                /\ seq_dict' = [seq_dict EXCEPT ![sub] = Append(@, line.query_sequence)]
                /\ qual_dict' = [qual_dict EXCEPT ![sub] = Append(@, line.query_qualities)]
                /\ consumed' = <<line>>
                /\ pc' = "loop"
                /\ err' = err
       \/ /\ pc' = "abort"
          /\ err' = [kind |-> "StopIteration", msg |-> "", tag |-> <<>>]
          /\ UNCHANGED <<first_line, seq_dict, qual_dict, consumed>>
    /\ UNCHANGED <<o, endIter, tag_count_dict, read1_dcs_len, read2_dcs_len,
                   dcs_read_1, dcs_read_2, sscs_fq, dcs_fq, log,
                   parse_vars, call_vars>>

\* lines 54-63 and 360-545: the iteratorWrapper yields the next record of the
\* file, or FinalValue once when the file is exhausted, and the loop body runs
LoopIter(Recs) ==
    /\ pc = "loop"
    /\ ~endIter
    /\ \E line \in NextLines(Recs) \cup {FinalValue} :
        \E new \in {LoopBody(line)} :
            /\ endIter' = (line = FinalValue)
            /\ consumed' = IF line = FinalValue THEN consumed
                           ELSE Append(consumed, line)
            /\ pc' = new.pc
            /\ err' = new.err
            /\ first_line' = new.first_line
            /\ seq_dict' = new.seq_dict
            /\ qual_dict' = new.qual_dict
            /\ tag_count_dict' = new.tag_count_dict
            /\ read1_dcs_len' = new.read1_dcs_len
            /\ read2_dcs_len' = new.read2_dcs_len
            /\ dcs_read_1' = new.dcs_read_1
            /\ dcs_read_2' = new.dcs_read_2
            /\ sscs_fq' = new.sscs_fq
            /\ dcs_fq' = new.dcs_fq
            /\ log' = new.log
    /\ UNCHANGED <<o, parse_vars, call_vars>>

\* lines 58-62: the second StopIteration ends the loop
LoopExit ==
    /\ pc = "loop"
    /\ endIter
    /\ pc' = "done"
    /\ UNCHANGED <<o, err, cons_vars, parse_vars, call_vars>>

\* the bodies of the records of the sorted file: read and qualities
Bodies ==
    {[seq |-> <<"A">>, qual |-> <<30>>],
     [seq |-> <<"A", "C">>, qual |-> <<20, 20>>],
     [seq |-> <<"C", "C">>, qual |-> <<30, 5>>]}

\* one tag with a run of two A, one tag with an N
Tags == {<<"G", "C", "A", "A">>, <<"N", "C", "A", "C">>}

SortedRecords(tags, bodies) ==
    {[query_name |-> t \o <<"#">> \o sub, query_sequence |-> b.seq,
      query_qualities |-> b.qual] : t \in tags, sub \in SubtypeSet, b \in bodies}

StreamRecords == SortedRecords(Tags, Bodies)

\* options: the minmem/maxmem pairs, a cutoff of zero, and the Ncutoff and
\* rep_filt values
Options ==
    {[BaseOptions EXCEPT !.minmem = a, !.maxmem = b] : a \in {1, 2}, b \in {1, 2}}
    \cup {[BaseOptions EXCEPT !.cutoff = <<0, 1>>]}
    \cup {[BaseOptions EXCEPT !.Ncutoff = n, !.rep_filt = r] :
            n \in {<<1, 5>>, <<2, 5>>}, r \in {2, 3}}

Init ==
    /\ o \in Options
    /\ pc = "start"
    /\ err = NoError
    /\ ParseIdle
    /\ ConsIdle
    /\ CallIdle

Next == FirstLine(StreamRecords) \/ LoopIter(StreamRecords) \/ LoopExit

Spec == Init /\ [][Next]_vars

\* families of reads of one length or two, under two minmem/maxmem pairs
GroupRecords ==
    SortedRecords(Tags, {b \in Bodies : b.seq \in {<<"A">>, <<"A", "C">>}})

GroupOptions == {BaseOptions, [BaseOptions EXCEPT !.minmem = 2]}

InitGroup ==
    /\ o \in GroupOptions
    /\ pc = "start"
    /\ err = NoError
    /\ ParseIdle
    /\ ConsIdle
    /\ CallIdle

NextGroup == FirstLine(GroupRecords) \/ LoopIter(GroupRecords) \/ LoopExit

SpecGroup == InitGroup /\ [][NextGroup]_vars

\* families of reads of one length, under every valid minmem/maxmem pair
FamRecords ==
    SortedRecords(Tags, {b \in Bodies : Len(b.seq) = 2})

FamOptions ==
    {[BaseOptions EXCEPT !.minmem = a, !.maxmem = b] :
        a \in {1, 2}, b \in {1, 2}} \ {[BaseOptions EXCEPT !.minmem = 2, !.maxmem = 1]}

InitFam ==
    /\ o \in FamOptions
    /\ pc = "start"
    /\ err = NoError
    /\ ParseIdle
    /\ ConsIdle
    /\ CallIdle

NextFam == FirstLine(FamRecords) \/ LoopIter(FamRecords) \/ LoopExit

SpecFam == InitFam /\ [][NextFam]_vars

----------------------------------------------------------------------------
(* Family grouping *)

TagOfRecord(r) == Split(r.query_name)[1]

\* the maximal runs of consecutive records of one tag, in stream order
RECURSIVE RunsOf(_)
RunsOf(recs) ==
    IF recs = <<>> THEN <<>>
    ELSE LET rest == RunsOf(Tail(recs))
         IN  IF rest # <<>> /\ TagOfRecord(rest[1][1]) = TagOfRecord(Head(recs))
             THEN << <<Head(recs)>> \o rest[1] >> \o Tail(rest)
             ELSE << <<Head(recs)>> >> \o rest

\* the records of a run with one subtype, in stream order
RunBucket(run, sub) ==
    SelectSeq(run, LAMBDA r : Split(r.query_name)[2] = sub)

\* log[k] is the k-th run: its tag, and in each bucket the reads and the
\* qualities of the run's records of that subtype, in stream order
FinalizedAsRun(k) ==
    LET run == RunsOf(consumed)[k]
    IN  /\ log[k].tag = TagOfRecord(run[1])
        /\ \A sub \in SubtypeSet :
               LET b == RunBucket(run, sub)
               IN  /\ log[k].raw[sub] = [i \in 1..Len(b) |-> b[i].query_sequence]
                   /\ log[k].rawq[sub] = [i \in 1..Len(b) |-> b[i].query_qualities]

\* C2 as stated: once the run has stopped, every maximal run of the records
\* read has been finalized exactly once, in stream order, the last one
\* included, each with exactly its own records in the four buckets.
C2_EveryRunFinalized ==
    pc \in {"done", "abort"} /\ consumed # <<>> =>
        /\ Len(log) = Len(RunsOf(consumed))
        /\ \A k \in 1..Len(log) : FinalizedAsRun(k)

\* C2 (amended): every maximal run whose end has been read (a record of
\* another tag, or the sentinel) is finalized exactly once, in stream order,
\* with exactly its own records in the four buckets; when the loop ends, that
\* is every run, the last one included. A run that starts after a family that
\* stopped the run is not finalized.
C2_EndedRunsFinalized ==
    /\ consumed # <<>> =>
           Len(log) = Len(RunsOf(consumed)) - (IF endIter THEN 0 ELSE 1)
    /\ \A k \in 1..Len(log) : FinalizedAsRun(k)
    /\ pc = "done" => Len(log) = Len(RunsOf(consumed)) /\ Len(log) >= 1

\* the loop has ended after two families of two records each, the last one
\* closed by the sentinel
C2_Witness ==
    /\ pc = "done"
    /\ Len(log) = 2
    /\ Len(consumed) = 4
    /\ log[2].raw # EmptyDict

\* C3: when the family that is handed over has different numbers of ab:1 and
\* ab:2 records, or of ba:1 and ba:2 records, the run stops with the read-count
\* error naming the tag, no SSCS or DCS record is written and the family-size
\* tally is unchanged; a stopped run takes no further step.
C3_MateCountAbort ==
    [][/\ pc # "abort"
       /\ (/\ Len(log') = Len(log) + 1
           /\ \/ Len(seq_dict[<<"a", "b", ":", "1">>]) # Len(seq_dict[<<"a", "b", ":", "2">>])
              \/ Len(seq_dict[<<"b", "a", ":", "1">>]) # Len(seq_dict[<<"b", "a", ":", "2">>]))
          => /\ pc' = "abort"
             /\ err' = [kind |-> "Exception", msg |-> "ReadCounts",
                        tag |-> TagOfRecord(first_line)]
             /\ sscs_fq' = sscs_fq
             /\ dcs_fq' = dcs_fq
             /\ tag_count_dict' = tag_count_dict]_vars

\* the run stopped on the read counts of its second family, after the first
\* family was written and counted
C3_Witness ==
    /\ pc = "abort"
    /\ err.msg = "ReadCounts"
    /\ Len(log) = 2
    /\ sscs_fq[1] # <<>>
    /\ DOMAIN tag_count_dict # {}

----------------------------------------------------------------------------
(* Single-strand consensus and duplex merge of a family *)

\* the log entries of the families that went through lines 380-411
Gated(e) == e.outcome \notin {"ReadCounts", "ReadLengths"}

\* the reads C4 says are voted on
VotedReads(bucket, opts) ==
    IF Len(bucket) <= opts.maxmem THEN bucket ELSE SubSeq(bucket, 1, opts.maxmem)

\* C4: with 1 <= minmem <= maxmem, a bucket of fewer than minmem reads is not
\* passed to consensus_caller and gives an empty consensus; a bucket of minmem
\* to maxmem reads is passed in full, a larger one as its first maxmem reads
\* in stream order, and the consensus is the vote of exactly those reads.
C4_MemberGate ==
    1 <= o.minmem /\ o.minmem <= o.maxmem =>
        \A k \in 1..Len(log) : Gated(log[k]) =>
            \A sub \in SubtypeSet :
                LET bucket == log[k].raw[sub]
                    voted == VotedReads(bucket, o)
                IN  IF Len(bucket) < o.minmem
                    THEN /\ ~log[k].calls[sub].made
                         /\ log[k].sscs[sub] = <<>>
                         /\ log[k].ssq[sub] = <<>>
                    ELSE /\ log[k].calls[sub].made
                         /\ log[k].calls[sub].reads = voted
                         /\ log[k].sscs[sub][1] =
                                [i \in 1..Len(voted[1]) |-> PluralityBase(voted, i, o.cutoff)]

\* a family with a bucket of two different reads under maxmem = 1, and a
\* family with a bucket below minmem
C4_Witness ==
    /\ o.maxmem = 1
    /\ \E k \in 1..Len(log) : \E sub \in SubtypeSet :
           /\ Gated(log[k])
           /\ Len(log[k].raw[sub]) = 2
           /\ log[k].raw[sub][1] # log[k].raw[sub][2]
           /\ log[k].calls[sub].reads = <<log[k].raw[sub][1]>>

\* int(s) of a str of decimal digits
RECURSIVE DecimalValue(_)
DecimalValue(s) ==
    IF s = <<>> THEN 0
    ELSE 10 * DecimalValue(SubSeq(s, 1, Len(s) - 1))
         + (CHOOSE d \in 0..9 : Digit(d) = s[Len(s)])

\* the merge C6 asks for of two consensuses of equal length
SharedBases(a, b) ==
    [i \in 1..Len(a) |->
        IF a[i] = b[i] /\ a[i] \in {"A", "C", "G", "T"} THEN a[i] ELSE "N"]

\* the candidate of first strand s1 and second strand s2 is formed exactly when
\* both consensuses are non-empty, merges them, and carries their read counts
MergedFrom(e, m, s1, s2) ==
    /\ e.formed[m] <=> (e.sscs[s1] # <<>> /\ e.sscs[s2] # <<>>)
    /\ e.formed[m] =>
        /\ e.merged[m].kind = "list"
        /\ Len(e.sscs[s1][1]) = Len(e.sscs[s2][1]) =>
               e.merged[m].val[1] = SharedBases(e.sscs[s1][1], e.sscs[s2][1])
        /\ DecimalValue(e.merged[m].val[2]) = Len(e.raw[s1])
        /\ DecimalValue(e.merged[m].val[3]) = Len(e.raw[s2])

\* C6: for every family that reaches the duplex merge, the mate-1 candidate
\* is formed exactly when the ab:1 and ba:2 consensuses are both non-empty and
\* the mate-2 candidate exactly when ba:1 and ab:2 are; for two consensuses of
\* equal length the candidate holds at each position the shared A/C/G/T base
\* or 'N', and its depths are the read counts of its ab and ba buckets.
C6_DuplexMerge ==
    \A k \in 1..Len(log) : Gated(log[k]) =>
        /\ MergedFrom(log[k], 1, <<"a", "b", ":", "1">>, <<"b", "a", ":", "2">>)
        /\ MergedFrom(log[k], 2, <<"b", "a", ":", "1">>, <<"a", "b", ":", "2">>)

\* a family whose mate-1 candidate holds an agreed base and an 'N' where the
\* strands differ
C6_Witness ==
    \E k \in 1..Len(log) :
        /\ log[k].formed = <<TRUE, TRUE>>
        /\ log[k].merged[1].val[1] = <<"N", "C">>
        /\ log[k].sscs[<<"a", "b", ":", "1">>][1] = <<"A", "C">>

\* the candidate of first strand s1 and second strand s2, when the two
\* consensuses differ in length, is as long as the shorter one
ZipShortest(e, m, s1, s2) ==
    e.formed[m] /\ Len(e.sscs[s1][1]) # Len(e.sscs[s2][1]) =>
        Len(e.merged[m].val[1]) = Min(Len(e.sscs[s1][1]), Len(e.sscs[s2][1]))

\* C7: when the two consensuses given to a duplex merge differ in length, in
\* either argument order, the merged sequence is as long as the shorter one,
\* so that no position of it is taken from one strand alone.
C7_ZipShortest ==
    \A k \in 1..Len(log) : Gated(log[k]) =>
        /\ ZipShortest(log[k], 1, <<"a", "b", ":", "1">>, <<"b", "a", ":", "2">>)
        /\ ZipShortest(log[k], 2, <<"b", "a", ":", "1">>, <<"a", "b", ":", "2">>)

\* the sequence and the quality string a DCS candidate stands for
CandidateSeq(read) == IF read.kind = "list" THEN read.val[1] ELSE read.val

CandidateQual(read) ==
    [i \in 1..Len(read.qual) |->
        IF read.qkind = "ints" THEN read.qual[i] + 33 ELSE Ord("!")]

\* the N-fraction filter of C8 on the m-th candidate of a family
Marked(e, m, opts) ==
    LET merged == e.merged[m].val[1]
    IN  e.formed[m] =>
            IF RatioGt(PyCount(merged, "N"), Len(merged), opts.Ncutoff)
            THEN /\ CandidateSeq(e.cand[m]) = [i \in 1..Len(merged) |-> "N"]
                 /\ CandidateQual(e.cand[m]) = [i \in 1..Len(merged) |-> 33]
            ELSE /\ CandidateSeq(e.cand[m]) = merged
                 /\ CandidateQual(e.cand[m]) = CandidateQual(e.merged[m])

\* C8: a DCS candidate whose merged sequence has a fraction of 'N' greater
\* than Ncutoff becomes all 'N', of the length of the merged sequence, with
\* the quality '!' at every position; any other candidate keeps its merged
\* sequence and qualities; the candidate is kept and the run does not fail.
C8_NFraction ==
    \A k \in 1..Len(log) : Gated(log[k]) =>
        /\ Marked(log[k], 1, o)
        /\ Marked(log[k], 2, o)
        /\ log[k].outcome = "ok"

\* a run of n or more identical A, C, G or T in a tag
HasRun(tag, n) ==
    \E i \in 1..Len(tag) :
        /\ tag[i] \in {"A", "C", "G", "T"}
        /\ i + n - 1 <= Len(tag)
        /\ \A j \in i..(i + n - 1) : tag[j] = tag[i]

\* the DCS records of a tag in one of the two DCS files
DcsOfTag(file, tag) == SelectSeq(file, LAMBDA r : r.tag = tag)

\* C9: for every family that reaches the duplex merge, DCS mate 1 and mate 2
\* are written together or not at all, and they are written exactly when both
\* candidates exist, the tag has no 'N' and no run of rep_filt or more
\* identical A, C, G or T.
C9_AcceptanceGate ==
    \A k \in 1..Len(log) : Gated(log[k]) =>
        LET accepted == /\ log[k].formed = <<TRUE, TRUE>>
                        /\ \A i \in 1..Len(log[k].tag) : log[k].tag[i] # "N"
                        /\ ~HasRun(log[k].tag, o.rep_filt)
        IN  /\ Len(DcsOfTag(dcs_fq[1], log[k].tag)) = (IF accepted THEN 1 ELSE 0)
            /\ Len(DcsOfTag(dcs_fq[2], log[k].tag)) = (IF accepted THEN 1 ELSE 0)

\* the options section 7 of the design rejects
InvalidOptions(opts) ==
    \/ opts.maxmem < opts.minmem
    \/ ~(0 < opts.cutoff[1] /\ opts.cutoff[1] <= opts.cutoff[2])
    \/ opts.tag_len < 0
    \/ opts.spcr_len < 0
    \/ opts.loc_len < 0

\* C10: under options with maxmem < minmem, a cutoff outside (0,1] or a
\* negative length, the run is rejected before any family is processed, so
\* that no SSCS or DCS record is ever written.
C10_OptionsRejected ==
    InvalidOptions(o) =>
        /\ sscs_fq = << <<>>, <<>> >>
        /\ dcs_fq = << <<>>, <<>> >>

----------------------------------------------------------------------------
(* Read lengths and qualities of a family *)

\* a bucket whose reads are not all of one length
NonUniform(bucket) ==
    \E i, j \in 1..Len(bucket) : Len(bucket[i]) # Len(bucket[j])

\* the records of a family in one output file
OfTag(file, tag) == SelectSeq(file, LAMBDA r : r.tag = tag)

\* C11: when a bucket of at least minmem reads of a completed family,
\* also one of more than maxmem reads, holds reads of different lengths, the
\* run aborts with an error naming the tag and no SSCS or DCS record of the
\* family is written.
C11_UniformLength ==
    ~InvalidOptions(o) =>
        \A k \in 1..Len(log) : log[k].outcome # "ReadCounts" =>
            \A sub \in SubtypeSet :
                Len(log[k].raw[sub]) >= o.minmem /\ NonUniform(log[k].raw[sub]) =>
                    /\ log[k].outcome = "ReadLengths"
                    /\ pc = "abort"
                    /\ err.tag = log[k].tag
                    /\ \A f \in 1..2 :
                        /\ OfTag(sscs_fq[f], log[k].tag) = <<>>
                        /\ OfTag(dcs_fq[f], log[k].tag) = <<>>

\* the sum at every position of the qualities of the first maxmem reads
FirstReadsSum(quals, opts) ==
    LET first == SubSeq(quals, 1, opts.maxmem)
    IN  [i \in 1..Len(first[1]) |-> SumAt(first, i)]

\* C12: the summed quality of the consensus of a bucket of more than maxmem
\* reads is, at each position, the sum of the qualities of its first maxmem
\* reads, the reads that were voted on.
C12_TruncatedQuality ==
    ~InvalidOptions(o) =>
        \A k \in 1..Len(log) : Gated(log[k]) =>
            \A sub \in SubtypeSet :
                Len(log[k].raw[sub]) > o.maxmem /\ ~NonUniform(log[k].raw[sub]) =>
                    /\ log[k].calls[sub].reads = SubSeq(log[k].raw[sub], 1, o.maxmem)
                    /\ log[k].ssq[sub] = FirstReadsSum(log[k].rawq[sub], o)

\* a record whose quality string is as long as its sequence and encodes
\* values from 0 to 41
WellFormed(r) ==
    /\ Len(r.qual) = Len(r.seq)
    /\ \A i \in 1..Len(r.qual) : 33 <= r.qual[i] /\ r.qual[i] <= 74

\* C13: every SSCS and DCS record written has a quality string of the length
\* of its sequence, with every character code between 33 and 74.
C13_QualityShape ==
    ~InvalidOptions(o) =>
        \A f \in 1..2 :
            /\ \A i \in 1..Len(sscs_fq[f]) : WellFormed(sscs_fq[f][i])
            /\ \A i \in 1..Len(dcs_fq[f]) : WellFormed(dcs_fq[f][i])

====
